---------------------------- MODULE Spec2Model ----------------------------
(***************************************************************************)
(* A model of hash_bench.py: a script that times hashing strategies over   *)
(* a list of files, discards one trial per (file, strategy) pair and       *)
(* prints the mean and the sample standard deviation of the rest.          *)
(*                                                                         *)
(* Numbers.  Python floats are modelled by exact rationals <<num, den>>    *)
(* in lowest terms (den > 0); a standard deviation is modelled by its      *)
(* square (the variance under the root), which determines it.  TLC's       *)
(* integers are 32 bits wide, so the arithmetic below is arranged never to *)
(* exceed 2^31 - 1 even for byte counts around 1024^3.                     *)
(***************************************************************************)
EXTENDS Integers, Sequences, FiniteSets, TLC

VARIABLES
    \* ---- the benchmark script (module level of hash_bench.py) ----
    iterations,                \* line 22
    present,                   \* the filesystem: path -> the file exists
    fsize,                     \* the filesystem: path -> size in bytes
    profile,                   \* the environment: how long invocations take
    clock,                     \* time.perf_counter(), in ticks
    pc,                        \* the script's position
    gi,                        \* index of the comprehension of lines 161-163
    fi,                        \* index of the loop of line 168
    i,                         \* loop variable of line 172
    si,                        \* index of the loop of line 177
    test_cases_with_filesize,  \* line 161
    results,                   \* line 166
    times,                     \* line 170
    averages,                  \* line 189
    std_devs,                  \* line 193
    stats,                     \* line 200
    printed,                   \* what print(s) has written, line 217
    calls,                     \* history: every completed or raised func(file_path)
    failed,                    \* history: an operation has raised
    \* ---- calculate_std_dev called directly ----
    numbers, sd_out, sd_pc,
    \* ---- pretty_file_size called directly ----
    bytes, size_out, size_pc,
    \* ---- pretty_time called directly ----
    seconds, time_out, time_pc,
    \* ---- one file hashed by a chunked and by a whole-file strategy ----
    content, pos, b, n, absorbed, mv_digest, naive_digest, hash_pc

benchVars == <<iterations, present, fsize, profile, clock, pc, gi, fi, i, si,
               test_cases_with_filesize, results, times, averages, std_devs,
               stats, printed, calls, failed>>
sdVars    == <<numbers, sd_out, sd_pc>>
sizeVars  == <<bytes, size_out, size_pc>>
timeVars  == <<seconds, time_out, time_pc>>
hashVars  == <<content, pos, b, n, absorbed, mv_digest, naive_digest, hash_pc>>
unitVars  == <<sdVars, sizeVars, timeVars, hashVars>>
vars      == <<benchVars, unitVars>>

---------------------------------------------------------------------------
(* Bounds of the model.                                                    *)

\* iterations ranges over 0..MaxIterations (the script hardcodes 5).
MaxIterations == 3
\* The number of files in test_cases (the script hardcodes 5 paths).
NumFiles == 2
\* Sample lists handed directly to calculate_std_dev have 0..MaxSamples elements.
MaxSamples == 3
\* Inputs of pretty_file_size lie within EdgeWindow of each unit threshold.
EdgeWindow == 12
\* Length of the chunk buffer, standing for the script's 128 * 1024 bytes.
BufLen == 2
\* Files hashed have 0..MaxFileLen bytes.
MaxFileLen == 4

---------------------------------------------------------------------------
(* Exact arithmetic.                                                       *)

RECURSIVE GCD(_, _)
GCD(x, y) == IF y = 0 THEN x ELSE GCD(y, x % y)

\* The rational x / y (x >= 0, y > 0) in lowest terms.
Rat(x, y) == LET g == GCD(x, y) IN <<x \div g, y \div g>>

RECURSIVE SumSeq(_)
SumSeq(s) == IF s = <<>> THEN 0 ELSE Head(s) + SumSeq(Tail(s))

RECURSIVE SumSquares(_)
SumSquares(s) == IF s = <<>> THEN 0 ELSE Head(s) * Head(s) + SumSquares(Tail(s))


---------------------------------------------------------------------------
(* Statistics helpers (lines 116-119, 189-196).                            *)

\* sum(times) / len(times), line 190.  Only used on a non-empty list.
Mean(xs) == Rat(SumSeq(xs), Len(xs))

\* statistics.stdev(numbers), line 119, for len(numbers) >= 2, as the
\* library computes it from the exact sums: the variance is
\* (n * sum(x^2) - sum(x)^2) / (n * (n - 1)); the result is its square root,
\* represented by the variance.
stdev(xs) ==
    LET len == Len(xs)
        sx  == SumSeq(xs)
        sxx == SumSquares(xs)
    IN  Rat(len * sxx - sx * sx, len * (len - 1))

\* statistics.pstdev: the population deviation, which divides by n.
pstdev(xs) ==
    LET len == Len(xs)
        sx  == SumSeq(xs)
        sxx == SumSquares(xs)
    IN  Rat(len * sxx - sx * sx, len * len)

\* A calculate_std_dev that forgets Bessel's correction.
calculate_std_dev_population(xs) ==
    IF Len(xs) < 2 THEN Rat(0, 1) ELSE pstdev(xs)

\* calculate_std_dev, lines 116-119.  The literal 0 returned for a short list
\* is the deviation whose square is 0.
calculate_std_dev(xs) ==
    IF Len(xs) < 2 THEN Rat(0, 1) ELSE stdev(xs)

---------------------------------------------------------------------------
(* The benchmark script.                                                   *)

\* test_cases, lines 13-19: the list of paths.
test_cases == [k \in 1..NumFiles |-> "f" \o ToString(k)]

Paths == {test_cases[k] : k \in 1..NumFiles}

\* hash_functions, lines 76-89: a dict, iterated in insertion order.
hash_functions == <<"BLAKE3_mmap", "BLAKE3_mv">>

\* hash_functions.keys()
Names == {hash_functions[k] : k \in 1..Len(hash_functions)}

\* Sizes a file may have.
SizeValues == {0, 1536}

\* How long func(file_path) runs is the environment's choice.  The model
\* draws one timing profile per run: "fixed", every invocation takes the
\* same time (a strategy that sleeps); "cold", the first trial on a file is
\* slow and later trials alternate; "tagged", every invocation of the run
\* takes a different time, so that a sample's origin can be read off it.
Profiles == {"fixed", "cold", "tagged"}

elapsed(f, trial, s) ==
    CASE profile = "fixed"  -> 10
      [] profile = "cold"   -> IF trial = 0 THEN 9 ELSE 2 + (trial % 2)
      [] profile = "tagged" ->
            1 + trial + (MaxIterations + 1) * ((s - 1) + Len(hash_functions) * (f - 1))

\* A range(iterations) in place of range(iterations + 1).
TrialCountShort == iterations

\* range(iterations + 1), line 173: the number of trials per file.
TrialCount == iterations + 1

\* A guard that discards the first trial instead.
ShouldRecordSkipFirst(trial) == trial # 0

\* The guard of line 182: the sample is appended unless i = 1.
ShouldRecord(trial) == trial # 1

\* A script that starts hashing as soon as the first size is known.
PcAfterGetSizeLazy(k) == "init_results"

\* The comprehension of lines 161-163 runs over all of test_cases before
\* the script goes on to line 166.
PcAfterGetSize(k) == IF k < Len(test_cases) THEN "getsize" ELSE "init_results"

\* A handler that swallows the exception and tries the operation again.
PcAfterRaiseRetry == pc

\* Nothing catches an exception: the script ends with the traceback.
PcAfterRaise == "error"

BenchInit(start) ==
    /\ iterations \in 0..MaxIterations
    /\ present \in [Paths -> BOOLEAN]
    /\ fsize \in [Paths -> SizeValues]
    /\ profile \in Profiles
    /\ clock = 0
    /\ pc = start
    /\ gi = 1
    /\ fi = 1
    /\ i = 0
    /\ si = 1
    /\ test_cases_with_filesize = <<>>
    /\ results = <<>>
    /\ times = <<>>
    /\ averages = <<>>
    /\ std_devs = <<>>
    /\ stats = <<>>
    /\ printed = <<>>
    /\ calls = <<>>
    /\ failed = FALSE

\* The benchmark is not run: its state is fixed.
BenchIdle ==
    /\ iterations = 0
    /\ present = [p \in Paths |-> TRUE]
    /\ fsize = [p \in Paths |-> 0]
    /\ profile = "fixed"
    /\ clock = 0
    /\ pc = "idle"
    /\ gi = 1 /\ fi = 1 /\ i = 0 /\ si = 1
    /\ test_cases_with_filesize = <<>>
    /\ results = <<>> /\ times = <<>> /\ averages = <<>> /\ std_devs = <<>>
    /\ stats = <<>> /\ printed = <<>> /\ calls = <<>> /\ failed = FALSE

SdIdle   == numbers = <<>> /\ sd_out = <<>> /\ sd_pc = "idle"
SizeIdle == bytes = 0 /\ size_out = <<>> /\ size_pc = "idle"
TimeIdle == seconds = <<0, 1>> /\ time_out = <<>> /\ time_pc = "idle"
HashIdle ==
    /\ content = <<>> /\ pos = 0 /\ b = <<>> /\ n = 0 /\ absorbed = <<>>
    /\ mv_digest = -1 /\ naive_digest = -1 /\ hash_pc = "idle"

\* os.path.getsize(file) of line 162, for a file that exists.
GetSize ==
    /\ pc = "getsize"
    /\ present[test_cases[gi]]
    /\ test_cases_with_filesize' =
           Append(test_cases_with_filesize, <<test_cases[gi], fsize[test_cases[gi]]>>)
    /\ gi' = gi + 1
    /\ pc' = PcAfterGetSize(gi)
    /\ UNCHANGED <<unitVars, iterations, present, fsize, profile, clock, fi, i, si,
                   results, times, averages, std_devs, stats, printed, calls, failed>>

\* os.path.getsize(file) of line 162 raises FileNotFoundError.
GetSizeFails ==
    /\ pc = "getsize"
    /\ ~present[test_cases[gi]]
    /\ failed' = TRUE
    /\ pc' = PcAfterRaise
    /\ UNCHANGED <<unitVars, iterations, present, fsize, profile, clock, gi, fi, i, si,
                   test_cases_with_filesize, results, times, averages, std_devs,
                   stats, printed, calls>>

\* Line 166, and the entry into the loop of line 168.
InitResults ==
    /\ pc = "init_results"
    /\ results' = [name \in Names |-> <<>>]
    /\ fi' = 1
    /\ pc' = IF test_cases_with_filesize = <<>> THEN "aggregate" ELSE "begin_file"
    /\ UNCHANGED <<unitVars, iterations, present, fsize, profile, clock, gi, i, si,
                   test_cases_with_filesize, times, averages, std_devs, stats,
                   printed, calls, failed>>

\* Lines 169-172: a file's sample lists start empty; the first trial begins.
BeginFile ==
    /\ pc = "begin_file"
    /\ times' = [name \in Names |-> <<>>]
    /\ i' = 0
    /\ si' = 1
    /\ pc' = IF TrialCount > 0 THEN "invoke" ELSE "collect"
    /\ UNCHANGED <<unitVars, iterations, present, fsize, profile, clock, gi, fi,
                   test_cases_with_filesize, results, averages, std_devs, stats,
                   printed, calls, failed>>

\* The position after the body of the loop of line 177 has run once.
Advance ==
    IF si < Len(hash_functions)
    THEN si' = si + 1 /\ UNCHANGED <<i, pc>>
    ELSE IF i + 1 < TrialCount
         THEN i' = i + 1 /\ si' = 1 /\ UNCHANGED pc
         ELSE pc' = "collect" /\ UNCHANGED <<i, si>>

\* Lines 177-183: one timed invocation, which returns.
Invoke ==
    /\ pc = "invoke"
    /\ LET file_path == test_cases_with_filesize[fi][1]
           name      == hash_functions[si]
           start     == clock                         \* Timer.__enter__
           end       == clock + elapsed(fi, i, si)    \* func runs; Timer.__exit__
           interval  == end - start
       IN  /\ clock' = end
           /\ times' = IF ShouldRecord(i)
                       THEN [times EXCEPT ![name] = Append(@, interval)]
                       ELSE times
           /\ calls' = Append(calls, [file_path |-> file_path, trial |-> i,
                                      name |-> name, interval |-> interval,
                                      raised |-> FALSE,
                                      recorded |-> ShouldRecord(i)])
    /\ Advance
    /\ UNCHANGED <<unitVars, iterations, present, fsize, profile, gi, fi,
                   test_cases_with_filesize, results, averages, std_devs, stats,
                   printed, failed>>

\* Line 179 raises (the file has vanished, cannot be read, does not fit in
\* memory): Timer.__exit__ still runs, nothing is appended.
InvokeFails ==
    /\ pc = "invoke"
    /\ clock' = clock + elapsed(fi, i, si)
    /\ calls' = Append(calls, [file_path |-> test_cases_with_filesize[fi][1],
                               trial |-> i, name |-> hash_functions[si],
                               interval |-> elapsed(fi, i, si),
                               raised |-> TRUE, recorded |-> FALSE])
    /\ failed' = TRUE
    /\ pc' = PcAfterRaise
    /\ UNCHANGED <<unitVars, iterations, present, fsize, profile, gi, fi, i, si,
                   test_cases_with_filesize, results, times, averages, std_devs,
                   stats, printed>>

\* Lines 185-186, and the next round of the loop of line 168.
Collect ==
    /\ pc = "collect"
    /\ results' = [name \in Names |-> Append(results[name], times[name])]
    /\ fi' = fi + 1
    /\ pc' = IF fi < Len(test_cases_with_filesize) THEN "begin_file" ELSE "aggregate"
    /\ UNCHANGED <<unitVars, iterations, present, fsize, profile, clock, gi, i, si,
                   test_cases_with_filesize, times, averages, std_devs, stats,
                   printed, calls, failed>>

\* Lines 189-196.  sum(times) / len(times) raises ZeroDivisionError on an
\* empty list.
Aggregate ==
    /\ pc = "aggregate"
    /\ IF \E name \in Names : \E k \in 1..Len(results[name]) : results[name][k] = <<>>
       THEN /\ failed' = TRUE
            /\ pc' = PcAfterRaise
            /\ UNCHANGED <<averages, std_devs>>
       ELSE /\ averages' = [name \in Names |->
                               [k \in 1..Len(results[name]) |-> Mean(results[name][k])]]
            /\ std_devs' = [name \in Names |->
                               [k \in 1..Len(results[name]) |->
                                   calculate_std_dev(results[name][k])]]
            /\ pc' = "stats"
            /\ UNCHANGED failed
    /\ UNCHANGED <<unitVars, iterations, present, fsize, profile, clock, gi, fi, i, si,
                   test_cases_with_filesize, results, times, stats, printed, calls>>

\* A report that reads every file's figures from the first file's slot.
FileStatsFirstSlot(k) ==
    [file_path      |-> test_cases_with_filesize[k][1],
     filesize_bytes |-> test_cases_with_filesize[k][2],
     stats          |-> [name \in Names |->
                            [name |-> name, avg |-> averages[name][1],
                             std_dev |-> std_devs[name][1]]]]

\* The FileStats built for index k, lines 201-212.
FileStatsAt(k) ==
    [file_path      |-> test_cases_with_filesize[k][1],
     filesize_bytes |-> test_cases_with_filesize[k][2],
     stats          |-> [name \in Names |->
                            [name |-> name, avg |-> averages[name][k],
                             std_dev |-> std_devs[name][k]]]]

\* Lines 200-214.
GenerateStats ==
    /\ pc = "stats"
    /\ stats' = [k \in 1..Len(test_cases_with_filesize) |-> FileStatsAt(k)]
    /\ pc' = IF test_cases_with_filesize = <<>> THEN "done" ELSE "print"
    /\ UNCHANGED <<unitVars, iterations, present, fsize, profile, clock, gi, fi, i, si,
                   test_cases_with_filesize, results, times, averages, std_devs,
                   printed, calls, failed>>

\* Lines 216-217: print(s) for the next s of stats.  What is written is
\* modelled by the FileStats it renders.
PrintStats ==
    /\ pc = "print"
    /\ printed' = Append(printed, stats[Len(printed) + 1])
    /\ pc' = IF Len(printed) + 1 < Len(stats) THEN "print" ELSE "done"
    /\ UNCHANGED <<unitVars, iterations, present, fsize, profile, clock, gi, fi, i, si,
                   test_cases_with_filesize, results, times, averages, std_devs,
                   stats, calls, failed>>

Init == BenchInit("getsize") /\ SdIdle /\ SizeIdle /\ TimeIdle /\ HashIdle

Next ==
    \/ GetSize
    \/ GetSizeFails
    \/ InitResults
    \/ BeginFile
    \/ Invoke
    \/ InvokeFails
    \/ Collect
    \/ Aggregate
    \/ GenerateStats
    \/ PrintStats

Spec == Init /\ [][Next]_vars


---------------------------------------------------------------------------
(* What the history says, computed apart from the script's own lists.      *)

\* The positions in calls of the invocations of strategy name on file path.
CallsOf(path, name) ==
    {k \in 1..Len(calls) : calls[k].file_path = path /\ calls[k].name = name}

\* The intervals measured for (path, name) whose trial index is not 1, in
\* the order measured.
SamplesOf(path, name) ==
    LET Kept(e) == e.file_path = path /\ e.name = name /\ e.trial # 1 /\ ~e.raised
        sel     == SelectSeq(calls, Kept)
    IN  [k \in 1..Len(sel) |-> sel[k].interval]

RECURSIVE SumSquaredDeviations(_, _, _)
\* The sum over x in xs of (len * x - sx)^2, i.e. len^2 times the sum of the
\* squared deviations of xs from the mean sx / len.
SumSquaredDeviations(xs, len, sx) ==
    IF xs = <<>> THEN 0
    ELSE (len * Head(xs) - sx) * (len * Head(xs) - sx)
         + SumSquaredDeviations(Tail(xs), len, sx)

\* The Bessel-corrected sample variance of xs (Len(xs) >= 2) by its
\* definition: the squared deviations from the mean, summed, over n - 1.
BesselVariance(xs) ==
    LET len == Len(xs)
    IN  Rat(SumSquaredDeviations(xs, len, SumSeq(xs)), len * len * (len - 1))

\* The script has got past the loops without an exception.
LoopsDone == pc \in {"aggregate", "stats", "print", "done"}

---------------------------------------------------------------------------
(* Claims about the benchmark loop.                                        *)

\* What C1 says of one strategy once a file's trials have run: one more
\* trial than `wanted` ran, exactly the trial of index 1 was dropped, and
\* `wanted` samples are in the list.
TrialsAndSamples(name, wanted) ==
    LET mine == CallsOf(test_cases_with_filesize[fi][1], name)
    IN  /\ {calls[k].trial : k \in mine} = 0..wanted
        /\ Cardinality(mine) = wanted + 1
        /\ {calls[k].trial : k \in {m \in mine : ~calls[m].recorded}} = {1}
        /\ Len(times[name]) = wanted

C2_FirstTrialDiscarded ==
    /\ \A k \in 1..Len(calls) : calls[k].trial = 0 => ~calls[k].recorded
    /\ (pc = "invoke" /\ i = 0) => \A name \in Names : times[name] = <<>>

\* C3: the invocations happen in the order file > trial > strategy, each
\* trial invoking every strategy once in the order of hash_functions, and a
\* run that gets past the loops has made F * (iterations + 1) * S of them.
C3_InvocationOrder ==
    LET S == Len(hash_functions)
        T == iterations + 1
    IN  /\ \A k \in 1..Len(calls) :
              /\ calls[k].file_path = test_cases[((k - 1) \div (S * T)) + 1]
              /\ calls[k].trial = ((k - 1) \div S) % T
              /\ calls[k].name = hash_functions[((k - 1) % S) + 1]
        /\ LoopsDone => Len(calls) = Len(test_cases) * T * S

C3_Witness ==
    /\ pc = "done"
    /\ iterations >= 1
    /\ Len(calls) = Len(test_cases) * (iterations + 1) * Len(hash_functions)

\* C4: a run that completes has printed one FileStats per input file, in
\* list order; the k-th carries the path and size of file k and, for every
\* strategy, the mean and deviation of the samples recorded for that
\* strategy on file k and of no others.
C4_Reports ==
    /\ \A k \in 1..Len(printed) :
          /\ printed[k].file_path = test_cases[k]
          /\ printed[k].filesize_bytes = fsize[test_cases[k]]
          /\ DOMAIN printed[k].stats = Names
          /\ \A name \in Names :
                LET xs == SamplesOf(test_cases[k], name)
                IN  /\ xs # <<>>
                    /\ printed[k].stats[name].name = name
                    /\ printed[k].stats[name].avg = Rat(SumSeq(xs), Len(xs))
                    /\ printed[k].stats[name].std_dev =
                          IF Len(xs) < 2 THEN <<0, 1>> ELSE BesselVariance(xs)
    /\ pc = "done" => Len(printed) = Len(test_cases)

C4_Witness ==
    /\ pc = "done"
    /\ Len(printed) = Len(test_cases)
    /\ iterations >= 2
    /\ \E name \in Names :
          /\ printed[1].stats[name].avg # printed[Len(printed)].stats[name].avg
          /\ printed[1].stats[name].std_dev # <<0, 1>>
    /\ printed[1].filesize_bytes # printed[Len(printed)].filesize_bytes

\* C9: a failure is fatal.  Once an operation has raised, the script is at
\* its end with nothing printed, the failed call is the last call made, and
\* no step resolves another size, invokes a strategy or prints a report.
C9_FailureIsFatal ==
    /\ [](failed => /\ pc = "error"
                    /\ printed = <<>>
                    /\ \A k \in 1..Len(calls) : calls[k].raised => k = Len(calls))
    /\ [][failed => /\ calls' = calls
                    /\ test_cases_with_filesize' = test_cases_with_filesize
                    /\ printed' = printed
                    /\ pc' = pc]_vars

C9_Witness ==
    /\ failed
    /\ pc = "error"
    /\ printed = <<>>
    /\ Len(calls) > Len(hash_functions) * (iterations + 1)
    /\ calls[Len(calls)].raised

\* C10: the sizes of all listed files are resolved, in list order, before
\* the first invocation; if any listed file is absent the run ends in the
\* file-not-found error with no strategy invoked.
C10_SizesFirst ==
    /\ \A k \in 1..Len(test_cases_with_filesize) :
          test_cases_with_filesize[k] = <<test_cases[k], fsize[test_cases[k]]>>
    /\ calls # <<>> => Len(test_cases_with_filesize) = Len(test_cases)
    /\ (\E p \in Paths : ~present[p]) =>
          /\ calls = <<>>
          /\ printed = <<>>
          /\ pc \in {"getsize", "error"}
          /\ pc = "error" => failed /\ ~present[test_cases[gi]]

C10_Witness ==
    /\ pc = "error"
    /\ Len(test_cases) > 1
    /\ \A k \in 1..(Len(test_cases) - 1) : present[test_cases[k]]
    /\ ~present[test_cases[Len(test_cases)]]
    /\ Len(test_cases_with_filesize) = Len(test_cases) - 1
    /\ calls = <<>>


---------------------------------------------------------------------------
(* calculate_std_dev called directly, on any short list of samples.        *)

\* Values a sample may take.
SampleValues == {1, 2, 4, 7}

SampleLists == UNION {[1..len -> SampleValues] : len \in 0..MaxSamples}

SdInit == numbers \in SampleLists /\ sd_out = <<>> /\ sd_pc = "call"

CallStdDev ==
    /\ sd_pc = "call"
    /\ sd_out' = calculate_std_dev(numbers)
    /\ sd_pc' = "done"
    /\ UNCHANGED <<benchVars, numbers, sizeVars, timeVars, hashVars>>

\* The benchmark, and calculate_std_dev on its own.
InitStdDev ==
    \/ Init
    \/ BenchIdle /\ SdInit /\ SizeIdle /\ TimeIdle /\ HashIdle

NextStdDev ==
    \/ Next
    \/ CallStdDev

SpecStdDev == InitStdDev /\ [][NextStdDev]_vars

\* C5: calculate_std_dev returns 0 for a list of fewer than 2 elements (the
\* empty list included) and the Bessel-corrected sample deviation for a
\* longer one; in the benchmark, a run with iterations = 1 gets a deviation
\* of 0 for every (file, strategy) pair.
C5_StdDev ==
    /\ sd_pc = "done" =>
          IF Len(numbers) < 2
          THEN sd_out = <<0, 1>>
          ELSE sd_out = BesselVariance(numbers)
    /\ pc \in {"stats", "print", "done"} =>
          \A name \in Names : \A k \in 1..Len(test_cases) :
              LET xs == results[name][k]
              IN  /\ std_devs[name][k] =
                        IF Len(xs) < 2 THEN <<0, 1>> ELSE BesselVariance(xs)
                  /\ iterations = 1 => std_devs[name][k] = <<0, 1>>

C5_Witness ==
    /\ sd_pc = "done"
    /\ Len(numbers) >= 2
    /\ sd_out # <<0, 1>>
    /\ sd_out = BesselVariance(numbers)

---------------------------------------------------------------------------
(* Rounding to two decimals and printing a float.                          *)

RECURSIVE MulDiv(_, _, _)
\* <<q, rem>> with m * r = q * d + rem and 0 <= rem < d, for 0 <= r < d and
\* d <= 2^30, by doubling: no intermediate value reaches 2^31.
MulDiv(r, m, d) ==
    IF m = 0 THEN <<0, 0>>
    ELSE IF m % 2 = 0
         THEN LET h == MulDiv(r, m \div 2, d)
                  t == 2 * h[2]
              IN  <<2 * h[1] + (t \div d), t % d>>
         ELSE LET h == MulDiv(r, m - 1, d)
                  t == h[2] + r
              IN  <<h[1] + (t \div d), t % d>>

RECURSIVE IsPowerOfTwo(_)
IsPowerOfTwo(y) == y = 1 \/ (y > 1 /\ y % 2 = 0 /\ IsPowerOfTwo(y \div 2))

\* round(v, 2) for the float v nearest to x / y, as a count of hundredths.
\* Python rounds the exact value of the float to the nearest hundredth.  A
\* quotient whose denominator in lowest terms is a power of two is its float:
\* a tie is a tie, and goes to the even hundredth.  Any other quotient that
\* lies midway between two hundredths has a float a little above or a little
\* below it, on the side `up` tells.  The quotients the model tries are
\* either ties or much further from one than a float is from its quotient.
Round2(x, y, up) ==
    LET ip  == x \div y
        md  == MulDiv(x % y, 100, y)
        q   == 100 * ip + md[1]
        rem == md[2]
    IN  IF rem > y - rem THEN q + 1
        ELSE IF rem < y - rem THEN q
        ELSE IF IsPowerOfTwo(y \div GCD(x, y))
             THEN (IF q % 2 = 0 THEN q ELSE q + 1)
             ELSE (IF up THEN q + 1 ELSE q)

\* The text of the float h / 100 in an f-string: the shortest decimal that
\* reads back as the same float, with at least one fractional digit.
FloatRepr(h) ==
    ToString(h \div 100) \o "." \o
        (IF h % 100 = 0 THEN "0"
         ELSE IF h % 10 = 0 THEN ToString((h % 100) \div 10)
         ELSE IF h % 100 < 10 THEN "0" \o ToString(h % 100)
         ELSE ToString(h % 100))

---------------------------------------------------------------------------
(* pretty_file_size called directly.                                       *)

\* A pretty_file_size whose comparisons include the threshold.
pretty_file_size_inclusive(x) ==
    IF x <= 1024 THEN ToString(x) \o " B"
    ELSE IF x <= 1024 * 1024 THEN FloatRepr(Round2(x, 1024, FALSE)) \o " KB"
    ELSE IF x <= 1024 * 1024 * 1024 THEN FloatRepr(Round2(x, 1024 * 1024, FALSE)) \o " MB"
    ELSE FloatRepr(Round2(x, 1024 * 1024 * 1024, FALSE)) \o " GB"

\* pretty_file_size, lines 94-102.  Dividing by 1024 is exact in binary, so
\* bytes / 1024 / 1024 is the exact quotient by 1024 * 1024.
pretty_file_size(x) ==
    IF x < 1024 THEN ToString(x) \o " B"
    ELSE IF x < 1024 * 1024 THEN FloatRepr(Round2(x, 1024, FALSE)) \o " KB"
    ELSE IF x < 1024 * 1024 * 1024 THEN FloatRepr(Round2(x, 1024 * 1024, FALSE)) \o " MB"
    ELSE FloatRepr(Round2(x, 1024 * 1024 * 1024, FALSE)) \o " GB"

\* The byte counts within w of t.
Around(t, w) == {x \in (t - w)..(t + w) : x >= 0}

\* Byte counts tried: those near each threshold, and the sizes the comments
\* of lines 14-17 give, and a tie (1152 / 1024 = 1.125).
ByteInputs ==
    Around(0, EdgeWindow) \cup Around(1024, EdgeWindow)
        \cup Around(1024 * 1024, EdgeWindow)
        \cup Around(1024 * 1024 * 1024, EdgeWindow)
        \cup {1152, 24658, 167331758, 608012698, 1363652116}

SizeInit == bytes \in ByteInputs /\ size_out = <<>> /\ size_pc = "call"

CallPrettyFileSize ==
    /\ size_pc = "call"
    /\ size_out' = pretty_file_size(bytes)
    /\ size_pc' = "done"
    /\ UNCHANGED <<benchVars, sdVars, bytes, timeVars, hashVars>>

InitSize == BenchIdle /\ SdIdle /\ SizeInit /\ TimeIdle /\ HashIdle

NextSize == CallPrettyFileSize

SpecSize == InitSize /\ [][NextSize]_vars

\* k * x as <<high, low>> with k * x = high * 65536 + low and low < 65536,
\* for 0 <= k <= 201 and 0 <= x <= 2^30.
Times(k, x) ==
    LET lo == k * (x % 65536)
    IN  <<k * (x \div 65536) + (lo \div 65536), lo % 65536>>

\* u <= v for two such pairs.
PairLeq(u, v) == u[1] < v[1] \/ (u[1] = v[1] /\ u[2] <= v[2])

\* h hundredths is a nearest count of hundredths to x / y (x >= 0,
\* 0 < y <= 2^30): |x / y - h / 100| <= 1 / 200, stated without division as
\* (2 * hq - 1) * y <= 200 * r <= (2 * hq + 1) * y for the remainder r of x
\* by y and hq the hundredths beyond the whole part.
IsNearestHundredth(h, x, y) ==
    LET r  == x % y
        hq == h - 100 * (x \div y)
    IN  /\ hq \in 0..100
        /\ hq > 0 => PairLeq(Times(2 * hq - 1, y), Times(200, r))
        /\ PairLeq(Times(200, r), Times(2 * hq + 1, y))

\* The text is `value unit` for a value that is x / y rounded to 2 decimals.
IsScaledText(text, x, y, unit) ==
    \E hq \in 0..100 :
        LET h == 100 * (x \div y) + hq
        IN  IsNearestHundredth(h, x, y) /\ text = FloatRepr(h) \o unit

\* C6: pretty_file_size picks the unit by half-open ranges (B below 1024, KB
\* below 1024^2, MB below 1024^3, GB from there on), prints the bytes as an
\* integer and the scaled values rounded to 2 decimals, and gives "0 B",
\* "1023 B", "1.0 KB", "1.0 MB", "1.0 GB" for 0, 1023, 1024, 1024^2, 1024^3.
C6_PrettyFileSize ==
    size_pc = "done" =>
        /\ bytes < 1024 => size_out = ToString(bytes) \o " B"
        /\ (1024 <= bytes /\ bytes < 1048576) =>
              IsScaledText(size_out, bytes, 1024, " KB")
        /\ (1048576 <= bytes /\ bytes < 1073741824) =>
              IsScaledText(size_out, bytes, 1048576, " MB")
        /\ bytes >= 1073741824 => IsScaledText(size_out, bytes, 1073741824, " GB")
        /\ bytes = 0 => size_out = "0 B"
        /\ bytes = 1023 => size_out = "1023 B"
        /\ bytes = 1024 => size_out = "1.0 KB"
        /\ bytes = 1048576 => size_out = "1.0 MB"
        /\ bytes = 1073741824 => size_out = "1.0 GB"
        /\ bytes = 167331758 => size_out = "159.58 MB"

C6_Witness ==
    /\ size_pc = "done"
    /\ bytes = 1073741824
    /\ size_out = "1.0 GB"


---------------------------------------------------------------------------
(* pretty_time called directly.  A duration is a rational <<num, den>> of  *)
(* seconds.                                                                *)

\* seconds < k, for an integer k: the whole part of seconds is below k.
Below(s, k) == (s[1] \div s[2]) < k

\* seconds <= k, for an integer k.
AtMost(s, k) == Below(s, k) \/ (s[1] = k * s[2])

\* A pretty_time whose comparisons include the threshold.
pretty_time_inclusive(s, up) ==
    IF AtMost(s, 1) THEN FloatRepr(Round2(s[1] * 1000, s[2], up)) \o " ms"
    ELSE IF AtMost(s, 60) THEN FloatRepr(Round2(s[1], s[2], up)) \o " s"
    ELSE IF AtMost(s, 3600) THEN FloatRepr(Round2(s[1], s[2] * 60, up)) \o " m"
    ELSE FloatRepr(Round2(s[1], s[2] * 3600, up)) \o " h"

\* pretty_time, lines 105-113, of a float (as annotated, and as AlgoStats
\* passes it: an average of floats); `up` is the side of a tie the float
\* lies on (see Round2).
pretty_time(s, up) ==
    IF Below(s, 1) THEN FloatRepr(Round2(s[1] * 1000, s[2], up)) \o " ms"
    ELSE IF Below(s, 60) THEN FloatRepr(Round2(s[1], s[2], up)) \o " s"
    ELSE IF Below(s, 3600) THEN FloatRepr(Round2(s[1], s[2] * 60, up)) \o " m"
    ELSE FloatRepr(Round2(s[1], s[2] * 3600, up)) \o " h"

\* Durations tried: in microseconds near 0, 1 s and 60 s, in milliseconds
\* near 60 s and 3600 s, and 0.5, 1.5, 90 and 7200 seconds.
TimeInputs ==
    {Rat(us, 1000000) : us \in Around(0, EdgeWindow) \cup Around(1000000, EdgeWindow)
                                 \cup Around(60000000, EdgeWindow)
                                 \cup {500000, 1500000, 999994, 59994999}}
        \cup {Rat(ms, 1000) : ms \in Around(60000, EdgeWindow)
                                        \cup Around(3600000, EdgeWindow)
                                        \cup {90000, 7200000, 3599699, 86400000}}

TimeInit == seconds \in TimeInputs /\ time_out = <<>> /\ time_pc = "call"

CallPrettyTime ==
    /\ time_pc = "call"
    /\ \E up \in BOOLEAN : time_out' = pretty_time(seconds, up)
    /\ time_pc' = "done"
    /\ UNCHANGED <<benchVars, sdVars, sizeVars, seconds, hashVars>>

InitTime == BenchIdle /\ SdIdle /\ SizeIdle /\ TimeInit /\ HashIdle

NextTime == CallPrettyTime

SpecTime == InitTime /\ [][NextTime]_vars

\* C7: pretty_time picks the unit by half-open ranges (ms with s * 1000
\* below 1 s, s below 60 s, m with s / 60 below 3600 s, h with s / 3600 from
\* there on), prints the value rounded to 2 decimals, and gives "500.0 ms",
\* "1.5 s", "1.5 m", "2.0 h" for 0.5, 1.5, 90 and 7200 seconds.
C7_PrettyTime ==
    time_pc = "done" =>
        LET num == seconds[1]
            den == seconds[2]
        IN  /\ num < den => IsScaledText(time_out, num * 1000, den, " ms")
            /\ (den <= num /\ (num \div 60) < den) =>
                  IsScaledText(time_out, num, den, " s")
            /\ ((num \div 60) >= den /\ (num \div 3600) < den) =>
                  IsScaledText(time_out, num, den * 60, " m")
            /\ (num \div 3600) >= den => IsScaledText(time_out, num, den * 3600, " h")
            /\ seconds = <<1, 2>> => time_out = "500.0 ms"
            /\ seconds = <<3, 2>> => time_out = "1.5 s"
            /\ seconds = <<90, 1>> => time_out = "1.5 m"
            /\ seconds = <<7200, 1>> => time_out = "2.0 h"

C7_Witness ==
    /\ time_pc = "done"
    /\ seconds = <<90, 1>>
    /\ time_out = "1.5 m"

---------------------------------------------------------------------------
(* One file hashed by a whole-file strategy (get_hashlib_naive,            *)
(* blake3_mmap) and by a chunked strategy (get_hashlib_mv, blake3_mv) of   *)
(* the same algorithm.  A hasher is modelled by the bytes it has been fed; *)
(* its digest is a function of those bytes.                                *)

\* Values a byte of the file may take.
Bytes == {0, 1}

FileContents == UNION {[1..len -> Bytes] : len \in 0..MaxFileLen}

RECURSIVE Fold(_, _)
Fold(h, data) ==
    IF data = <<>> THEN h ELSE Fold((h * 31 + Head(data) + 1) % 65521, Tail(data))

\* file_hasher.hexdigest() of a hasher fed `data`.
hexdigest(data) == Fold(7, data)

Min(x, y) == IF x < y THEN x ELSE y

\* An update that is handed the whole buffer whatever was read.
UpdateArgWholeBuffer(buf, k) == buf

\* mv[:n], lines 38 and 72: the part of the buffer the read has filled.
UpdateArg(buf, k) == SubSeq(buf, 1, k)

HashInit ==
    /\ content \in FileContents
    /\ pos = 0
    /\ b = <<>>
    /\ n = 0
    /\ absorbed = <<>>
    /\ mv_digest = -1
    /\ naive_digest = -1
    /\ hash_pc = "naive"

\* Lines 47-51 (and 56-61): the whole file goes to one update.
HashWhole ==
    /\ hash_pc = "naive"
    /\ naive_digest' = hexdigest(content)
    /\ hash_pc' = "open"
    /\ UNCHANGED <<benchVars, sdVars, sizeVars, timeVars,
                   content, pos, b, n, absorbed, mv_digest>>

\* Lines 33-36 (and 66-70): a fresh hasher, a zeroed buffer, the file opened
\* unbuffered at offset 0.
OpenChunked ==
    /\ hash_pc = "open"
    /\ b' = [k \in 1..BufLen |-> 0]
    /\ pos' = 0
    /\ absorbed' = <<>>
    /\ hash_pc' = "read"
    /\ UNCHANGED <<benchVars, sdVars, sizeVars, timeVars,
                   content, n, mv_digest, naive_digest>>

\* Lines 37-38 (and 71-72), a round of the loop: readinto fills the front of
\* the buffer with the next got bytes of the file, got between 1 and what
\* the buffer holds and the file has left, and the hasher is fed mv[:n].
ReadChunk ==
    /\ hash_pc = "read"
    /\ pos < Len(content)
    /\ \E got \in 1..Min(BufLen, Len(content) - pos) :
          LET filled == [k \in 1..BufLen |->
                            IF k <= got THEN content[pos + k] ELSE b[k]]
          IN  /\ n' = got
              /\ b' = filled
              /\ pos' = pos + got
              /\ absorbed' = absorbed \o UpdateArg(filled, got)
    /\ UNCHANGED <<benchVars, sdVars, sizeVars, timeVars,
                   content, mv_digest, naive_digest, hash_pc>>

\* Lines 37 and 39 (71 and 73): at the end of the file readinto returns 0,
\* the loop ends and the digest is returned.
ReadEnd ==
    /\ hash_pc = "read"
    /\ pos = Len(content)
    /\ n' = 0
    /\ mv_digest' = hexdigest(absorbed)
    /\ hash_pc' = "done"
    /\ UNCHANGED <<benchVars, sdVars, sizeVars, timeVars,
                   content, pos, b, absorbed, naive_digest>>

InitHash == BenchIdle /\ SdIdle /\ SizeIdle /\ TimeIdle /\ HashInit

NextHash ==
    \/ HashWhole
    \/ OpenChunked
    \/ ReadChunk
    \/ ReadEnd

SpecHash == InitHash /\ [][NextHash]_vars

\* C8: the chunked loop feeds the hasher every byte of the file once and in
\* file order, in reads of at most the buffer's length, so that what it has
\* fed is always the part of the file read so far and, at the end, the
\* whole file: its digest is the whole-file strategy's digest.
C8_SameDigest ==
    /\ hash_pc \in {"read", "done"} =>
          /\ absorbed = SubSeq(content, 1, pos)
          /\ n <= BufLen
    /\ hash_pc = "done" =>
          /\ absorbed = content
          /\ mv_digest = naive_digest

C8_Witness ==
    /\ hash_pc = "done"
    /\ Len(content) > BufLen
    /\ Len(content) % BufLen = 0
    /\ n = 0
    /\ b # SubSeq(content, 1, BufLen)
    /\ mv_digest = naive_digest

===========================================================================
